---- MODULE Spec2Model ----
(***************************************************************************)
(* Model of tensornetwork/contractors/opt_einsum_paths/utils.py:           *)
(* get_first_nondangling, multi_remove and get_path, run on a bounded      *)
(* family of tensor networks (ordinary nodes, CopyNodes, dangling and      *)
(* non-dangling edges, trace edges).                                       *)
(***************************************************************************)
EXTENDS Integers, Sequences, FiniteSets, TLC

VARIABLES
    net,            \* the TensorNetwork passed to get_path
    snapshot,       \* the network as it was before the first call
    call,           \* "first" or "second" call of get_path on net
    pc,             \* position in get_path: start, loop, call, done, raised
    copy_nodes,     \* line 50: CopyNode -> its first non-dangling edge or None
    pending,        \* CopyNodes the for loop of line 60 has not visited yet
    sorted_nodes,   \* line 53
    edge_map,       \* line 56
    node_to_copies, \* line 58
    copy_to_nodes,  \* line 59
    input_sets,     \* line 73
    output_set,     \* line 74
    size_dict,      \* line 75
    result,         \* the value get_path returned, <<>> while there is none
    error,          \* the exception get_path raised, "" while there is none
    prev            \* what the first call passed to the algorithm and returned

vars == <<net, snapshot, call, pc, copy_nodes, pending, sorted_nodes, edge_map,
          node_to_copies, copy_to_nodes, input_sets, output_set, size_dict,
          result, error, prev>>

locals == <<copy_nodes, pending, sorted_nodes, edge_map, node_to_copies,
            copy_to_nodes, input_sets, output_set, size_dict>>

----------------------------------------------------------------------------
\* Bounds of the model.
MaxNodes == 2
MaxEdges == 2
MaxDim == 2

\* Python's None; node and edge identities start at 1.
None == 0

EmptyMap == <<>>

Range(s) == {s[i] : i \in DOMAIN s}

----------------------------------------------------------------------------
\* The network data model (tensornetwork.network / network_components).

\* Edge.is_dangling(): an edge with a single endpoint.
is_dangling(n, e) == n.node2[e] = None

RECURSIVE IncidentFrom(_, _, _, _, _)
IncidentFrom(node1, node2, m, x, e) ==
    IF e > m THEN <<>>
    ELSE (IF node1[e] = x THEN <<e>> ELSE <<>>)
         \o (IF node2[e] = x THEN <<e>> ELSE <<>>)
         \o IncidentFrom(node1, node2, m, x, e + 1)

\* A network of nn nodes and m edges: node.edges lists the edges of a node
\* axis by axis (a trace edge takes two axes of its node).
MkNet(nn, m, kind, signature, node1, node2, dimension) ==
    [nodes_set |-> 1..nn,
     kind      |-> kind,
     signature |-> signature,
     edges     |-> [x \in 1..nn |-> IncidentFrom(node1, node2, m, x, 1)],
     node1     |-> node1,
     node2     |-> node2,
     dimension |-> dimension]

\* The dimensions an edge is given: the smallest and the largest.
Dimensions == {1, MaxDim}

\* Signatures are unique per node; creation order need not follow identity.
Signatures(nn) == {[x \in 1..nn |-> x], [x \in 1..nn |-> nn + 1 - x]}

\* TensorNetwork.get_all_edges(): the edges of all nodes of the network.
get_all_edges(n) == UNION {Range(n.edges[x]) : x \in n.nodes_set}

\* TensorNetwork.get_all_nondangling()
get_all_nondangling(n) == {e \in get_all_edges(n) : ~is_dangling(n, e)}

----------------------------------------------------------------------------
\* utils.py

\* multi_remove(elems, indices), indices counted from 0
multi_remove(elems, indices) ==
    LET keep == {j \in 1..Len(elems) : (j - 1) \notin indices}
        F[k \in 0..Len(elems)] ==
            IF k = 0 THEN <<>>
            ELSE IF k \in keep THEN Append(F[k - 1], elems[k]) ELSE F[k - 1]
    IN F[Len(elems)]

RECURSIVE FirstNondanglingIn(_, _)
FirstNondanglingIn(n, es) ==
    IF es = <<>> THEN None
    ELSE IF ~is_dangling(n, Head(es)) THEN Head(es)
    ELSE FirstNondanglingIn(n, Tail(es))

\* A variant that returns the first edge, dangling or not.
first_edge(n, node) ==
    IF n.edges[node] = <<>> THEN None ELSE Head(n.edges[node])

\* get_first_nondangling(node)
get_first_nondangling(n, node) == FirstNondanglingIn(n, n.edges[node])

\* isinstance(node, network_components.CopyNode)
IsCopyNode(n, x) == n.kind[x] = "CopyNode"

\* line 50: the dict comprehension over net.nodes_set
CopyNodes(n) ==
    LET copies == {x \in n.nodes_set : IsCopyNode(n, x)}
    IN [x \in copies |-> get_first_nondangling(n, x)]

\* A variant that does not take the CopyNodes out.
AllNodes(n, cn) == n.nodes_set

\* line 53: net.nodes_set - set(copy_nodes.keys())
NonCopyNodes(n, cn) == n.nodes_set \ DOMAIN cn

\* The orders in which a set can be enumerated.
Enumerations(S) ==
    {s \in [1..Cardinality(S) -> S] : \A i, j \in DOMAIN s : i # j => s[i] # s[j]}

\* A variant that ignores the key.
InsertFirst(n, s, x) == <<x>> \o s

\* One step of a stable insertion by key: x goes after the elements whose key
\* is not larger.
InsertByKey(n, s, x) ==
    LET k == Cardinality({i \in DOMAIN s : n.signature[s[i]] <= n.signature[x]})
    IN SubSeq(s, 1, k) \o <<x>> \o SubSeq(s, k + 1, Len(s))

RECURSIVE SortedFrom(_, _, _)
SortedFrom(n, acc, rest) ==
    IF rest = <<>> THEN acc
    ELSE SortedFrom(n, InsertByKey(n, acc, Head(rest)), Tail(rest))

\* A variant that keeps the order of the enumeration.
unsorted(n, enumeration) == enumeration

\* lines 53-54: sorted(..., key = lambda n: n.signature) of an enumeration
sorted(n, enumeration) == SortedFrom(n, <<>>, enumeration)

\* line 61: the empty literal {} is a dict
EmptyContainer == [type |-> "dict", elems |-> {}]

\* .add(x): a method of set, not of dict
HasAdd(container) == container.type = "set"
Added(container, x) == [container EXCEPT !.elems = @ \cup {x}]

\* lines 62-70: the loop over copy.edges, on the three maps and the exception
\* raised so far.  The edge e is one of copy.edges, so copy is one of its
\* endpoints and the set of line 65 has one element at most.
RECURSIVE EdgeLoop(_, _, _, _, _)
EdgeLoop(n, copy, edge, es, st) ==
    IF es = <<>> \/ st.error # "" THEN st
    ELSE
      LET e == Head(es) IN
      IF is_dangling(n, e) THEN EdgeLoop(n, copy, edge, Tail(es), st)
      ELSE
        LET st1 == [st EXCEPT !.edge_map = (e :> edge) @@ @]
            others == {n.node1[e], n.node2[e]} \ {copy}
        IN
        IF others = {} THEN [st1 EXCEPT !.error = "KeyError"]
        ELSE
          LET node == CHOOSE x \in others : TRUE IN
          IF ~HasAdd(st1.copy_to_nodes[copy])
          THEN [st1 EXCEPT !.error = "AttributeError"]
          ELSE
            LET st2 == [st1 EXCEPT !.copy_to_nodes[copy] = Added(@, node)]
                st3 == IF node \in DOMAIN st2.node_to_copies
                       THEN [st2 EXCEPT !.node_to_copies[node] = @ \cup {copy}]
                       ELSE [st2 EXCEPT !.node_to_copies =
                                            (node :> {copy}) @@ @]
            IN EdgeLoop(n, copy, edge, Tail(es), st3)

\* lines 61-70: one iteration of the loop over copy_nodes.items()
CopyLoopBody(n, copy, edge, st) ==
    EdgeLoop(n, copy, edge, n.edges[copy],
             [st EXCEPT !.copy_to_nodes = (copy :> EmptyContainer) @@ @])

\* A variant that leaves the dangling edges out.
NondanglingInputSets(n, nodes) ==
    [i \in DOMAIN nodes |-> {e \in Range(n.edges[nodes[i]]) : ~is_dangling(n, e)}]

\* line 73
InputSets(n, nodes) == [i \in DOMAIN nodes |-> Range(n.edges[nodes[i]])]

\* A variant that forgets the subtraction.
OutputSetOfAllEdges(n) == get_all_edges(n)

\* line 74
OutputSet(n) == get_all_edges(n) \ get_all_nondangling(n)

\* A variant that sizes the non-dangling edges only.
SizeDictOfNondangling(n) == [e \in get_all_nondangling(n) |-> n.dimension[e]]

\* line 75
SizeDict(n) == [e \in get_all_edges(n) |-> n.dimension[e]]

----------------------------------------------------------------------------
\* The algorithm argument of get_path: a deterministic function of its three
\* arguments.  It contracts, step by step, the pair of operands whose result
\* is smallest (the first such pair), and reports positions counted from 0.

RECURSIVE SizeOf(_, _)
SizeOf(es, sizes) ==
    IF es = {} THEN 1
    ELSE LET e == CHOOSE x \in es : TRUE
         IN sizes[e] * SizeOf(es \ {e}, sizes)

Contracted(operands, p, output) ==
    LET others == UNION {operands[k] : k \in DOMAIN operands \ {p[1], p[2]}}
    IN (operands[p[1]] \cup operands[p[2]]) \cap (output \cup others)

RECURSIVE Algorithm(_, _, _)
Algorithm(operands, output, sizes) ==
    IF Len(operands) < 2 THEN <<>>
    ELSE
      LET pairs == {p \in (DOMAIN operands) \X (DOMAIN operands) : p[1] < p[2]}
          Cost(p) == SizeOf(Contracted(operands, p, output), sizes)
          Before(p, q) == \/ Cost(p) < Cost(q)
                          \/ /\ Cost(p) = Cost(q)
                             /\ \/ p[1] < q[1]
                                \/ p[1] = q[1] /\ p[2] <= q[2]
          best == CHOOSE p \in pairs : \A q \in pairs : Before(p, q)
          rest == Append(multi_remove(operands, {best[1] - 1, best[2] - 1}),
                         Contracted(operands, best, output))
      IN <<<<best[1] - 1, best[2] - 1>>>> \o Algorithm(rest, output, sizes)

\* The algorithm looks up the size of every edge of its operands.
Sized(operands, output, sizes) ==
    (UNION Range(operands)) \cup output \subseteq DOMAIN sizes

----------------------------------------------------------------------------
NoArgs == [input_sets |-> <<>>, output_set |-> {}, size_dict |-> EmptyMap]
NoCall == [args |-> NoArgs, result |-> <<>>]

Init ==
    /\ \E nn \in 0..MaxNodes, m \in 0..MaxEdges :
         /\ nn = 0 => m = 0
         /\ \E kind \in [1..nn -> {"Node", "CopyNode"}],
               signature \in Signatures(nn),
               node1 \in [1..m -> 1..nn],
               node2 \in [1..m -> {None} \cup 1..nn],
               dimension \in [1..m -> Dimensions] :
              /\ \A e \in 1..m : node2[e] = None \/ node1[e] <= node2[e]
              /\ net = MkNet(nn, m, kind, signature, node1, node2, dimension)
    /\ snapshot = net
    /\ call = "first"
    /\ pc = "start"
    /\ copy_nodes = EmptyMap
    /\ pending = {}
    /\ sorted_nodes = <<>>
    /\ edge_map = EmptyMap
    /\ node_to_copies = EmptyMap
    /\ copy_to_nodes = EmptyMap
    /\ input_sets = <<>>
    /\ output_set = {}
    /\ size_dict = EmptyMap
    /\ result = <<>>
    /\ error = ""
    /\ prev = NoCall

\* lines 50-59: copy_nodes, sorted_nodes and the three empty maps.  The set
\* difference of line 53 is enumerated in an order of its own.
Begin ==
    /\ pc = "start"
    /\ copy_nodes' = CopyNodes(net)
    /\ pending' = DOMAIN copy_nodes'
    /\ \E enumeration \in Enumerations(NonCopyNodes(net, copy_nodes')) :
         sorted_nodes' = sorted(net, enumeration)
    /\ edge_map' = EmptyMap
    /\ node_to_copies' = EmptyMap
    /\ copy_to_nodes' = EmptyMap
    /\ pc' = "loop"
    /\ UNCHANGED <<net, snapshot, call, input_sets, output_set, size_dict,
                   result, error, prev>>

LoopState == [edge_map |-> edge_map, node_to_copies |-> node_to_copies,
              copy_to_nodes |-> copy_to_nodes, error |-> ""]

\* lines 60-70: one iteration of the loop; copy_nodes.items() yields the
\* CopyNodes in the order net.nodes_set enumerated them, which is any order.
Iterate(copy) ==
    /\ pc = "loop"
    /\ copy \in pending
    /\ LET st == CopyLoopBody(net, copy, copy_nodes[copy], LoopState) IN
         /\ edge_map' = st.edge_map
         /\ node_to_copies' = st.node_to_copies
         /\ copy_to_nodes' = st.copy_to_nodes
         /\ error' = st.error
         /\ pc' = IF st.error = "" THEN "loop" ELSE "raised"
    /\ pending' = pending \ {copy}
    /\ UNCHANGED <<net, snapshot, call, copy_nodes, sorted_nodes, input_sets,
                   output_set, size_dict, result, prev>>

\* lines 73-75: the three arguments of the algorithm
Build ==
    /\ pc = "loop"
    /\ pending = {}
    /\ input_sets' = InputSets(net, sorted_nodes)
    /\ output_set' = OutputSet(net)
    /\ size_dict' = SizeDict(net)
    /\ pc' = "call"
    /\ UNCHANGED <<net, snapshot, call, copy_nodes, pending, sorted_nodes,
                   edge_map, node_to_copies, copy_to_nodes, result, error, prev>>

\* line 77: the call of the algorithm and the return
Return ==
    /\ pc = "call"
    /\ IF Sized(input_sets, output_set, size_dict)
       THEN /\ result' = <<Algorithm(input_sets, output_set, size_dict),
                           sorted_nodes>>
            /\ pc' = "done"
            /\ error' = error
       ELSE /\ result' = result
            /\ pc' = "raised"
            /\ error' = "KeyError"
    /\ UNCHANGED <<net, snapshot, call, locals, prev>>

Args == [input_sets |-> input_sets, output_set |-> output_set,
         size_dict |-> size_dict]

\* The caller calls get_path once more on the same network.
CallAgain ==
    /\ pc = "done"
    /\ call = "first"
    /\ prev' = [args |-> Args, result |-> result]
    /\ call' = "second"
    /\ pc' = "start"
    /\ copy_nodes' = EmptyMap
    /\ pending' = {}
    /\ sorted_nodes' = <<>>
    /\ edge_map' = EmptyMap
    /\ node_to_copies' = EmptyMap
    /\ copy_to_nodes' = EmptyMap
    /\ input_sets' = <<>>
    /\ output_set' = {}
    /\ size_dict' = EmptyMap
    /\ result' = <<>>
    /\ UNCHANGED <<net, snapshot, error>>

Next ==
    \/ Begin
    \/ \E copy \in pending : Iterate(copy)
    \/ Build
    \/ Return
    \/ CallAgain

Spec == Init /\ [][Next]_vars

----------------------------------------------------------------------------
\* The network as the properties below read it, from its data alone.

Ordinary == {x \in net.nodes_set : net.kind[x] = "Node"}
Copies == {x \in net.nodes_set : net.kind[x] = "CopyNode"}
AllEdges == DOMAIN net.node1
Dangling(e) == net.node2[e] = None
IncidentEdges(x) == {e \in AllEdges : x \in {net.node1[e], net.node2[e]}}
NonDanglingOf(c) == {e \in IncidentEdges(c) : ~Dangling(e)}
OtherEnd(c, e) == IF net.node1[e] = c THEN net.node2[e] ELSE net.node1[e]
Neighbours(c) == {OtherEnd(c, e) : e \in NonDanglingOf(c)}
AdjacentCopies(x) == {c \in Copies : x \in Neighbours(c)}

\* The first non-dangling edge in the edge order of c (c has one).
Representative(c) ==
    LET es == net.edges[c]
        first == CHOOSE i \in DOMAIN es :
                     /\ ~Dangling(es[i])
                     /\ \A j \in DOMAIN es : j < i => Dangling(es[j])
    IN es[first]

\* The representative of an edge: that of the CopyNode it touches, or itself.
Canonical(e) ==
    IF \E c \in Copies : e \in NonDanglingOf(c)
    THEN Representative(CHOOSE c \in Copies : e \in NonDanglingOf(c))
    ELSE e

Ended == pc \in {"done", "raised"}
LoopOver == (pc = "loop" /\ pending = {}) \/ pc \in {"call", "done"}
AlgorithmCalled == pc \in {"call", "done"}
Visited(c) == pc \in {"loop", "call", "done", "raised"} /\ c \notin pending

----------------------------------------------------------------------------
\* C1: when a CopyNode is joined to an ordinary node by a non-dangling edge,
\* get_path returns normally and every ordinary node's input set holds the
\* representative of each of its edges in place of the edge.
C1_HyperedgeInputs ==
    (Ended /\ \E c \in Copies : Neighbours(c) \cap Ordinary # {}) =>
        /\ pc = "done"
        /\ \A i \in DOMAIN input_sets :
              input_sets[i] =
                  {Canonical(e) : e \in IncidentEdges(sorted_nodes[i])}

\* C2: the output set passed to the algorithm is exactly the set of dangling
\* edges of the network, those of CopyNodes included.
C2_OutputIsDangling ==
    AlgorithmCalled => output_set = {e \in AllEdges : Dangling(e)}

C2_Witness ==
    /\ pc = "done"
    /\ \E c \in Copies : \E e \in IncidentEdges(c) : e \in output_set
    /\ \E e \in AllEdges : ~Dangling(e)

\* C3: the returned node list holds exactly the ordinary nodes, each once, in
\* strictly ascending order of signature, whatever the order in which the node
\* set is enumerated.
C3_SortedNodes ==
    pc = "done" =>
        /\ Len(result[2]) = Cardinality(Ordinary)
        /\ Range(result[2]) = Ordinary
        /\ \A i, j \in DOMAIN result[2] :
              i < j => net.signature[result[2][i]] < net.signature[result[2][j]]
        /\ \A enumeration \in Enumerations(Ordinary) :
              sorted(net, enumeration) = result[2]

C3_Witness ==
    /\ pc = "done"
    /\ Len(result[2]) >= 2
    /\ net.signature[result[2][1]] < net.signature[result[2][2]]
    /\ result[2][1] > result[2][2]

C5_SizeTable ==
    AlgorithmCalled =>
        \A i \in DOMAIN input_sets : \A e \in input_sets[i] :
            /\ e \in DOMAIN size_dict
            /\ size_dict[e] = net.dimension[e]
            /\ size_dict[e] > 0

C5_Witness ==
    /\ pc = "done"
    /\ \E i \in DOMAIN input_sets : \E e, f \in input_sets[i] :
          /\ Dangling(e) /\ ~Dangling(f)
          /\ size_dict[e] # size_dict[f]

\* C6: with CopyNodes in the network the loop of lines 60-70 ends without an
\* error and edge_map sends every non-dangling edge of a CopyNode to the first
\* non-dangling edge of that CopyNode, no dangling edge being a key or a value.
C6_EdgeIdentityMap ==
    (Copies # {} /\ (LoopOver \/ pc = "raised")) =>
        /\ error = ""
        /\ \A c \in Copies : \A e \in NonDanglingOf(c) :
              e \in DOMAIN edge_map /\ edge_map[e] = Representative(c)
        /\ \A e \in DOMAIN edge_map : ~Dangling(e) /\ ~Dangling(edge_map[e])

\* C7: a CopyNode with no non-dangling edge does not make get_path fail:
\* its copy_nodes value is None, it adds nothing to edge_map and
\* node_to_copies, its copy_to_nodes entry is empty, an exception comes only
\* from a CopyNode that has a non-dangling edge, and what is returned is the
\* algorithm's path with the sorted node list.
C7_AllDanglingCopy ==
    /\ \A c \in Copies : NonDanglingOf(c) = {} =>
          /\ c \in DOMAIN copy_nodes => copy_nodes[c] = None
          /\ Visited(c) =>
                /\ c \in DOMAIN copy_to_nodes
                /\ copy_to_nodes[c].elems = {}
                /\ IncidentEdges(c) \cap DOMAIN edge_map = {}
                /\ \A x \in DOMAIN node_to_copies : c \notin node_to_copies[x]
    /\ pc = "raised" => \E c \in Copies : NonDanglingOf(c) # {}
    /\ pc = "done" =>
          result = <<Algorithm(input_sets, output_set, size_dict), sorted_nodes>>

C7_Witness ==
    /\ pc = "done"
    /\ Ordinary # {}
    /\ \E c \in Copies : IncidentEdges(c) # {} /\ NonDanglingOf(c) = {}
    /\ Len(result[2]) = Cardinality(Ordinary)

\* C8: without CopyNodes the three maps stay empty, every input set is the set
\* of the node's own edges, and the algorithm gets what lines 73-75 build from
\* the network alone.
C8_NoCopyNodes ==
    Copies = {} =>
        /\ pc # "raised"
        /\ pc # "start" =>
              /\ copy_nodes = EmptyMap
              /\ edge_map = EmptyMap
              /\ node_to_copies = EmptyMap
              /\ copy_to_nodes = EmptyMap
        /\ AlgorithmCalled =>
              /\ input_sets = [i \in DOMAIN sorted_nodes |->
                                  IncidentEdges(sorted_nodes[i])]
              /\ Range(sorted_nodes) = net.nodes_set
              /\ output_set = {e \in AllEdges : Dangling(e)}
              /\ size_dict = [e \in AllEdges |-> net.dimension[e]]

C8_Witness ==
    /\ pc = "done"
    /\ Copies = {}
    /\ Len(input_sets) = 2
    /\ input_sets[1] \cap input_sets[2] # {}
    /\ output_set # {}

\* C9: get_path leaves the network as it was, and a second call on it passes
\* the same arguments to the algorithm and returns the same pair as the first.
C9_Idempotent ==
    /\ net = snapshot
    /\ (call = "second" /\ AlgorithmCalled) => Args = prev.args
    /\ (call = "second" /\ pc = "done") => result = prev.result

C9_Witness ==
    /\ call = "second"
    /\ pc = "done"
    /\ Len(result[1]) >= 1
    /\ result = prev.result

\* C10: once the loop of lines 60-70 is over no error was raised, the
\* copy_to_nodes entry of every CopyNode with a non-dangling edge is the set of
\* nodes at the other end of its non-dangling edges, and node_to_copies maps
\* every node to the CopyNodes joined to it by a non-dangling edge.
C10_AdjacencyMaps ==
    (LoopOver \/ pc = "raised") =>
        /\ error = ""
        /\ \A c \in Copies : NonDanglingOf(c) # {} =>
              /\ c \in DOMAIN copy_to_nodes
              /\ copy_to_nodes[c].elems = Neighbours(c)
        /\ \A x \in net.nodes_set :
              AdjacentCopies(x) = IF x \in DOMAIN node_to_copies
                                  THEN node_to_copies[x] ELSE {}

====
